---- MODULE Spec2Model ----
(***************************************************************************)
(* A model of the transcript backend of src-tauri/src/lib.rs: the six      *)
(* commands get_projects, get_sessions, get_messages, search_messages,     *)
(* get_session_context and get_dashboard_stats, each a pure function of    *)
(* the files under the home directory, and the writers that create         *)
(* directories and files and append lines to transcripts.                  *)
(***************************************************************************)
EXTENDS Integers, Sequences, FiniteSets, TLC

VARIABLES fs, ret

vars == <<fs, ret>>

(***************************************************************************)
(* Bounds of the model.                                                    *)
(***************************************************************************)
MaxLines == 2
MaxFiles == 2
MaxDashLines == 2
MaxOldFiles == 2
MaxWrites == 2
BatchSize == 75
MaxCtxLines == 2
MaxDirs == 2
MaxLogLines == 3

(***************************************************************************)
(* Constants of the program.                                               *)
(***************************************************************************)
PreviewBefore == 30
PreviewAfter == 70
PreviewMaxLen == 100
MaxResults == 100

(***************************************************************************)
(* serde_json::Value.  A string value holds either an identifier (a TLA+   *)
(* string: type, role, name, timestamp, path) or a text (a sequence of     *)
(* one-character strings: content and text fields).                        *)
(***************************************************************************)
JAbsent == [k |-> "absent", v |-> 0]
JNull == [k |-> "null", v |-> 0]
JStr(s) == [k |-> "str", v |-> s]
JNum(n) == [k |-> "num", v |-> n]
JArr(a) == [k |-> "arr", v |-> a]
JObj(f) == [k |-> "obj", v |-> f]

\* What a line of a file can be besides a JSON value.
BlankLine == [k |-> "blank", v |-> 0]
InvalidLine == [k |-> "invalid", v |-> 0]

\* serde_json::from_str::<serde_json::Value>(line).is_ok()
IsJson(line) == line.k \notin {"blank", "invalid"}

\* Value::get(key): None (JAbsent) unless the value is an object with the key.
Get(val, key) ==
  IF val.k = "obj" /\ key \in DOMAIN val.v THEN val.v[key] ELSE JAbsent

\* Option<T> of a typed struct field: a missing key and null are both None.
None == [k |-> "none", v |-> 0]
Opt(val) == IF val.k \in {"absent", "null"} THEN None ELSE val
UnwrapOr(o, d) == IF o.k = "none" THEN d ELSE o.v

\* A field declared Option<String> or Option<u64> accepts these values only.
OptStringOk(val) == val.k \in {"absent", "null", "str"}
OptU64Ok(val) == val.k \in {"absent", "null"} \/ (val.k = "num" /\ val.v >= 0)

\* str::trim().is_empty() on a text.
IsWhite(c) == c \in {" ", "\n", "\t"}
TrimIsEmpty(s) == \A i \in 1..Len(s) : IsWhite(s[i])

\* serde_json::from_str::<Message>(line).is_ok()
MessageContentOk(m) ==
  \/ m.k \in {"absent", "null"}
  \/ m.k = "obj" /\ OptStringOk(Get(m, "role"))

ParseMessageOk(line) ==
  /\ line.k = "obj"
  /\ OptStringOk(Get(line, "type"))
  /\ OptStringOk(Get(line, "uuid"))
  /\ OptStringOk(Get(line, "parentUuid"))
  /\ OptStringOk(Get(line, "timestamp"))
  /\ OptStringOk(Get(line, "sessionId"))
  /\ MessageContentOk(Get(line, "message"))

\* The Message a line deserializes to (only used when ParseMessageOk).
MessageContentOf(m) ==
  IF m.k \in {"absent", "null"} THEN None
  ELSE [k |-> "some",
        v |-> [role |-> Opt(Get(m, "role")), content |-> Opt(Get(m, "content"))]]

MessageOf(line) ==
  [msg_type |-> Opt(Get(line, "type")),
   uuid |-> Opt(Get(line, "uuid")),
   parent_uuid |-> Opt(Get(line, "parentUuid")),
   timestamp |-> Opt(Get(line, "timestamp")),
   session_id |-> Opt(Get(line, "sessionId")),
   message |-> MessageContentOf(Get(line, "message"))]

\* serde_json::from_str::<TranscriptMessage>(line).is_ok()
ParseTranscriptOk(line) ==
  /\ line.k = "obj"
  /\ OptStringOk(Get(line, "type"))
  /\ OptStringOk(Get(line, "timestamp"))
  /\ OptStringOk(Get(line, "content"))

TranscriptOf(line) ==
  [msg_type |-> Opt(Get(line, "type")),
   timestamp |-> Opt(Get(line, "timestamp")),
   content |-> Opt(Get(line, "content"))]

\* serde_json::from_str::<RawMessage>(line).is_ok()
TokenUsageOk(u) ==
  \/ u.k \in {"absent", "null"}
  \/ u.k = "obj" /\ OptU64Ok(Get(u, "input_tokens")) /\ OptU64Ok(Get(u, "output_tokens"))

RawMessageContentOk(m) ==
  \/ m.k \in {"absent", "null"}
  \/ m.k = "obj" /\ TokenUsageOk(Get(m, "usage"))

ParseRawOk(line) == line.k = "obj" /\ RawMessageContentOk(Get(line, "message"))

\* The Option<TokenUsage> of a RawMessage (only used when ParseRawOk).
RawUsageOf(line) == Opt(Get(Get(line, "message"), "usage"))

(***************************************************************************)
(* has_text_content                                                        *)
(***************************************************************************)
TextBlockHasText(item) ==
  IF Get(item, "type") = JStr("text")
  THEN Get(item, "text").k = "str" /\ ~TrimIsEmpty(Get(item, "text").v)
  ELSE FALSE

\* Variant: any string, and any text block, counts as text.
has_text_content_blank_ok(message) ==
  IF message.k = "none" THEN FALSE
  ELSE IF message.v.content.k = "none" THEN FALSE
  ELSE LET content == message.v.content IN
    CASE content.k = "str" -> TRUE
      [] content.k = "arr" ->
           \E i \in 1..Len(content.v) : Get(content.v[i], "type") = JStr("text")
      [] OTHER -> FALSE

has_text_content(message) ==
  IF message.k = "none" THEN FALSE
  ELSE IF message.v.content.k = "none" THEN FALSE
  ELSE LET content == message.v.content IN
    CASE content.k = "str" -> ~TrimIsEmpty(content.v)
      [] content.k = "arr" ->
           \E i \in 1..Len(content.v) : TextBlockHasText(content.v[i])
      [] OTHER -> FALSE

(***************************************************************************)
(* Generic helpers: stable sort (slice::sort_by), sums, minimum.           *)
(***************************************************************************)
Min(a, b) == IF a < b THEN a ELSE b
Max(a, b) == IF a > b THEN a ELSE b

\* The stable order of slice::sort_by: s[j] ends before s[i] when it is
\* strictly before it, or when neither is before the other and j < i.
SortBy(s, Before(_, _)) ==
  LET n == Len(s)
      pos == [i \in 1..n |->
                1 + Cardinality({j \in 1..n :
                      \/ Before(s[j], s[i])
                      \/ ~Before(s[i], s[j]) /\ j < i})]
  IN [q \in 1..n |-> s[CHOOSE i \in 1..n : pos[i] = q]]

(***************************************************************************)
(* The file tree under the home directory.                                 *)
(*   fs.home            dirs::home_dir() is Some                           *)
(*   fs.projects        ~/.claude/projects: exists, entries (read_dir      *)
(*                      order); an entry has name, is_dir, files           *)
(*   fs.transcripts     ~/.claude/transcripts: exists, files               *)
(*   a file has stem, ext, modified, readable (read_to_string is Ok) and   *)
(*   lines.                                                                *)
(* A project path is an index into fs.projects.entries (0: no such path),  *)
(* a session path is a pair <<project, file>>.                             *)
(***************************************************************************)
NewFile(stem, ext, modified) ==
  [stem |-> stem, ext |-> ext, modified |-> modified, readable |-> TRUE, lines |-> <<>>]

IsJsonl(f) == f.ext = "jsonl"

ProjectExists(p) == fs.projects.exists /\ p \in 1..Len(fs.projects.entries)

SessionExists(sp) ==
  /\ ProjectExists(sp[1])
  /\ sp[2] \in 1..Len(fs.projects.entries[sp[1]].files)

FileAt(sp) == fs.projects.entries[sp[1]].files[sp[2]]

(***************************************************************************)
(* calculate_session_stats                                                 *)
(***************************************************************************)
IsUserOrAssistant(t) == t = JStr("user") \/ t = JStr("assistant")

\* The first attempt of the loop body: the line as a Message.
PrimaryQualifies(line) ==
  /\ ParseMessageOk(line)
  /\ LET msg == MessageOf(line) IN
       /\ msg.msg_type.k # "none"
       /\ IsUserOrAssistant(msg.msg_type)
       /\ has_text_content(msg.message)

\* The second attempt: the line as a TranscriptMessage.
LegacyQualifies(line) ==
  /\ ParseTranscriptOk(line)
  /\ LET t == TranscriptOf(line) IN
       /\ t.msg_type = JStr("user")
       /\ t.content.k # "none"
       /\ ~TrimIsEmpty(t.content.v)

\* Variant: `parsed` declared outside the loop.
ParsedCarriedOver(previous) == previous

\* `let mut parsed = false;` at the top of the loop body.

ParsedAtLineStart(previous) == FALSE

\* The third attempt: the token counters of the line as a RawMessage.
LineUsage(line) ==
  IF ParseRawOk(line) /\ RawUsageOf(line).k # "none"
  THEN LET usage == RawUsageOf(line) IN
         [input |-> UnwrapOr(Opt(Get(usage, "input_tokens")), 0),
          output |-> UnwrapOr(Opt(Get(usage, "output_tokens")), 0)]
  ELSE [input |-> 0, output |-> 0]

\* Variant: the scanner counts the lines of the primary format only.
StatsStepPrimaryOnly(acc, line) ==
  IF line.k = "blank" THEN acc
  ELSE LET first == PrimaryQualifies(line)
           u == LineUsage(line)
       IN [input_tokens |-> acc.input_tokens + u.input,
           output_tokens |-> acc.output_tokens + u.output,
           message_count |-> acc.message_count + (IF first THEN 1 ELSE 0),
           parsed |-> first]

StatsStep(acc, line) ==
  IF line.k = "blank" THEN acc
  ELSE LET parsed0 == ParsedAtLineStart(acc.parsed)
           first == PrimaryQualifies(line)
           parsed == parsed0 \/ first
           second == ~parsed /\ LegacyQualifies(line)
           u == LineUsage(line)
       IN [input_tokens |-> acc.input_tokens + u.input,
           output_tokens |-> acc.output_tokens + u.output,
           message_count |-> acc.message_count + (IF first THEN 1 ELSE 0)
                                               + (IF second THEN 1 ELSE 0),
           parsed |-> parsed]

RECURSIVE StatsLoop(_, _, _)
StatsLoop(lines, i, acc) ==
  IF i > Len(lines) THEN acc ELSE StatsLoop(lines, i + 1, StatsStep(acc, lines[i]))

StatsOfLines(lines) ==
  LET acc == StatsLoop(lines, 1,
               [input_tokens |-> 0, output_tokens |-> 0, message_count |-> 0,
                parsed |-> FALSE])
  IN <<acc.input_tokens, acc.output_tokens, acc.message_count>>

calculate_session_stats(f) ==
  IF ~f.readable THEN <<0, 0, 0>> ELSE StatsOfLines(f.lines)

(***************************************************************************)
(* get_sessions                                                            *)
(***************************************************************************)
ModifiedDesc(a, b) == a.modified > b.modified

RECURSIVE SessionsLoop(_, _, _, _)
SessionsLoop(p, files, i, sessions) ==
  IF i > Len(files) THEN sessions
  ELSE IF ~IsJsonl(files[i]) THEN SessionsLoop(p, files, i + 1, sessions)
  ELSE LET st == calculate_session_stats(files[i])
           s == [id |-> files[i].stem, path |-> <<p, i>>,
                 modified |-> files[i].modified,
                 input_tokens |-> st[1], output_tokens |-> st[2]]
       IN SessionsLoop(p, files, i + 1,
            IF st[3] > 0 THEN Append(sessions, s) ELSE sessions)

get_sessions(p) ==
  IF ~ProjectExists(p) THEN [ok |-> FALSE, val |-> "Project path does not exist"]
  ELSE [ok |-> TRUE,
        val |-> SortBy(SessionsLoop(p, fs.projects.entries[p].files, 1, <<>>),
                       ModifiedDesc)]

(***************************************************************************)
(* get_messages                                                            *)
(***************************************************************************)
ConvertedMsg(t, content) ==
  [msg_type |-> t.msg_type, uuid |-> None, parent_uuid |-> None,
   timestamp |-> t.timestamp, session_id |-> None,
   message |-> [k |-> "some",
                v |-> [role |-> JStr("user"), content |-> JStr(content)]]]

\* Variant: the second attempt is made whatever the first gave.
MessagesStepBoth(messages, line) ==
  IF line.k = "blank" THEN messages
  ELSE LET first == PrimaryQualifies(line)
           m1 == IF first THEN Append(messages, MessageOf(line)) ELSE messages
       IN IF LegacyQualifies(line)
          THEN Append(m1, ConvertedMsg(TranscriptOf(line), TranscriptOf(line).content.v))
          ELSE m1

MessagesStep(messages, line) ==
  IF line.k = "blank" THEN messages
  ELSE LET first == PrimaryQualifies(line)
           parsed == first
           m1 == IF first THEN Append(messages, MessageOf(line)) ELSE messages
       IN IF ~parsed /\ LegacyQualifies(line)
          THEN Append(m1, ConvertedMsg(TranscriptOf(line), TranscriptOf(line).content.v))
          ELSE m1

RECURSIVE MessagesLoop(_, _, _)
MessagesLoop(lines, i, messages) ==
  IF i > Len(lines) THEN messages
  ELSE MessagesLoop(lines, i + 1, MessagesStep(messages, lines[i]))

get_messages(sp) ==
  IF ~SessionExists(sp) THEN [ok |-> FALSE, val |-> "Session file does not exist"]
  ELSE IF ~FileAt(sp).readable THEN [ok |-> FALSE, val |-> "read_to_string failed"]
  ELSE [ok |-> TRUE, val |-> MessagesLoop(FileAt(sp).lines, 1, <<>>)]

(***************************************************************************)
(* The lines the writers append.  Line and Msg build a JSON object; a key  *)
(* that holds JAbsent is a key the object does not have.                   *)
(***************************************************************************)
Line(type, timestamp, content, message) ==
  JObj([type |-> type, timestamp |-> timestamp, content |-> content,
        message |-> message])

Msg(role, content, usage) ==
  JObj([role |-> role, content |-> content, usage |-> usage])

Usage(input, output) == JObj([input_tokens |-> input, output_tokens |-> output])

TextBlock(text) == JObj([type |-> JStr("text"), text |-> JStr(text)])

ToolUse(name, input) == JObj([type |-> JStr("tool_use"), name |-> JStr(name), input |-> input])

Hi == <<"h", "i">>
Hello == <<"h", "e", "l", "l", "o">>
Blanks == <<" ", " ">>

\* Timestamp strings.  TsC is 04:30 of 2 January in UTC.
TsA == "2024-01-01T10:00:00Z"
TsAhalf == "2024-01-01T10:00:00.500Z"
TsB == "2024-01-01T10:30:00Z"
TsC == "2024-01-01T23:30:00-05:00"
TsD == "2024-01-02T01:00:00Z"
TsBad == "yesterday"

\* String::cmp on the timestamp and date strings of the model: the rank of a
\* string in lexicographic (byte) order.
StrRank(str) ==
  CASE str = "" -> 0
    [] str = "2024-01-01" -> 1
    [] str = TsAhalf -> 2
    [] str = TsA -> 3
    [] str = TsB -> 4
    [] str = TsC -> 5
    [] str = "2024-01-02" -> 6
    [] str = TsD -> 7
    [] str = TsBad -> 8

\* chrono::DateTime::parse_from_rfc3339: Err, or the instant (in half seconds
\* since 2024-01-01T00:00:00Z) with the hour and the weekday (0 = Monday) of
\* the local time the string states.
parse_from_rfc3339(str) ==
  CASE str = TsA -> [ok |-> TRUE, instant |-> 72000, hour |-> 10, weekday |-> 0]
    [] str = TsAhalf -> [ok |-> TRUE, instant |-> 72001, hour |-> 10, weekday |-> 0]
    [] str = TsB -> [ok |-> TRUE, instant |-> 75600, hour |-> 10, weekday |-> 0]
    [] str = TsC -> [ok |-> TRUE, instant |-> 205200, hour |-> 23, weekday |-> 0]
    [] str = TsD -> [ok |-> TRUE, instant |-> 180000, hour |-> 1, weekday |-> 1]
    [] OTHER -> [ok |-> FALSE, instant |-> 0, hour |-> 0, weekday |-> 0]

\* timestamp.split('T').next()
DatePart(str) ==
  CASE str \in {TsA, TsAhalf, TsB, TsC} -> "2024-01-01"
    [] str = TsD -> "2024-01-02"
    [] OTHER -> str

\* TimeDelta::num_seconds of a difference of instants: whole seconds, toward 0.
num_seconds(d) == IF d >= 0 THEN d \div 2 ELSE -((-d) \div 2)

User == JStr("user")
Assistant == JStr("assistant")
RoleUser == JStr("user")
RoleAssistant == JStr("assistant")

\* {"type":"user","message":{"role":"user","content":"hello"}}
LnUserHello == Line(User, JAbsent, JAbsent, Msg(RoleUser, JStr(Hello), JAbsent))
\* an assistant line with one text block and usage (10, 5)
LnAsstBlocks ==
  Line(Assistant, JStr(TsA), JAbsent,
       Msg(RoleAssistant, JArr(<<TextBlock(Hi)>>), Usage(JNum(10), JNum(5))))
\* {"type":"user","message":{"role":"user","content":[{"type":"text","text":"  "}]}}
LnUserBlankBlock == Line(User, JAbsent, JAbsent, Msg(RoleUser, JArr(<<TextBlock(Blanks)>>), JAbsent))
\* a user line whose string content is blank, with usage (7, 0)
LnUserBlankStr == Line(User, JAbsent, JAbsent, Msg(RoleUser, JStr(Blanks), Usage(JNum(7), JNum(0))))
\* a user line whose only block is a tool_use block
LnUserToolOnly ==
  Line(User, JStr(TsA), JAbsent,
       Msg(RoleUser, JArr(<<ToolUse("Edit", JObj([file_path |-> JStr("a.rs")]))>>), JAbsent))
\* a system line with text and usage (10, 5)
LnSystemUsage == Line(JStr("system"), JStr(TsA), JAbsent, Msg(JAbsent, JStr(Hello), Usage(JNum(10), JNum(5))))
\* no type; usage with input_tokens only
LnNoTypeUsage == Line(JAbsent, JAbsent, JAbsent, Msg(JAbsent, JAbsent, Usage(JNum(3), JAbsent)))
\* legacy schema: {"type":"user","timestamp":..,"content":"hi"}
LnLegacyUser == Line(User, JStr(TsA), JStr(Hi), JAbsent)
\* legacy schema with blank content
LnLegacyBlank == Line(User, JStr(TsA), JStr(Blanks), JAbsent)
\* legacy schema, type assistant
LnLegacyAsst == Line(Assistant, JStr(TsA), JStr(Hi), JAbsent)
\* both schemas qualify
LnBoth == Line(User, JAbsent, JStr(Hi), Msg(RoleUser, JStr(Hello), JAbsent))
\* the primary content is blank, the legacy content is not
LnBlankThenLegacy == Line(User, JAbsent, JStr(Hi), Msg(RoleUser, JStr(Blanks), JAbsent))
\* "message" is a string: not a Message, but a TranscriptMessage
LnMsgString == Line(User, JAbsent, JStr(Hi), JStr("m"))
\* "timestamp" is a number: neither a Message nor a TranscriptMessage
LnTsNumber == Line(User, JNum(5), JStr(Hi), Msg(RoleUser, JStr(Hello), Usage(JNum(2), JNum(2))))
\* "type" is a number, with usage (4, 1)
LnTypeNumber == Line(JNum(1), JAbsent, JAbsent, Msg(JAbsent, JStr(Hello), Usage(JNum(4), JNum(1))))
\* usage whose input_tokens is a string
LnUsageBadCounter == Line(Assistant, JStr(TsA), JAbsent, Msg(RoleAssistant, JStr(Hello), Usage(JStr("9"), JNum(6))))

ScanLines ==
  {BlankLine, InvalidLine, LnUserHello, LnAsstBlocks, LnUserBlankBlock,
   LnUserBlankStr, LnUserToolOnly, LnSystemUsage, LnNoTypeUsage, LnLegacyUser,
   LnLegacyBlank, LnLegacyAsst, LnBoth, LnBlankThenLegacy, LnMsgString,
   LnTsNumber, LnTypeNumber, LnUsageBadCounter}

\* The lines written to the transcript under study by the scanning commands.
ScanWritten == ScanLines \ {LnUserToolOnly, LnTypeNumber}

\* Transcripts that other sessions left behind: file extension, modification
\* time and lines.
OldFiles ==
  {[ext |-> "jsonl", modified |-> 1, readable |-> TRUE, lines |-> <<LnSystemUsage>>],
   [ext |-> "jsonl", modified |-> 3, readable |-> TRUE, lines |-> <<LnLegacyUser>>],
   [ext |-> "txt", modified |-> 4, readable |-> TRUE, lines |-> <<LnUserHello>>]}

\* Lines with timestamps, for the dashboard.
LnUserA == Line(User, JStr(TsA), JAbsent, Msg(RoleUser, JStr(Hello), JAbsent))
LnUserAhalf == Line(User, JStr(TsAhalf), JAbsent, Msg(RoleUser, JStr(Hello), JAbsent))
LnAsstB ==
  Line(Assistant, JStr(TsB), JAbsent,
       Msg(RoleAssistant, JArr(<<TextBlock(Hi)>>), Usage(JNum(10), JNum(5))))
LnAsstC == Line(Assistant, JStr(TsC), JAbsent, Msg(RoleAssistant, JStr(Hi), Usage(JNum(2), JNum(2))))
LnUserD == Line(User, JStr(TsD), JAbsent, Msg(RoleUser, JStr(Hi), Usage(JNum(4), JNum(4))))
LnUserBadTs == Line(User, JStr(TsBad), JAbsent, Msg(RoleUser, JStr(Hello), Usage(JNum(1), JNum(1))))

DashWritten ==
  {LnUserA, LnUserAhalf, LnAsstB, LnAsstC, LnUserBadTs, LnSystemUsage,
   LnNoTypeUsage, LnUsageBadCounter, LnUserHello, LnLegacyUser, InvalidLine}

DashOldFiles ==
  {[ext |-> "jsonl", modified |-> 1, readable |-> TRUE, lines |-> <<LnUserA, LnAsstB>>],
   [ext |-> "jsonl", modified |-> 2, readable |-> TRUE, lines |-> <<LnUserD>>]}

(***************************************************************************)
(* get_dashboard_stats                                                     *)
(***************************************************************************)
Some(x) == [k |-> "some", v |-> x]

\* Value::as_u64
as_u64(val) == IF val.k = "num" /\ val.v >= 0 THEN Some(val.v) ELSE None

EmptyMap == [x \in {} |-> 0]

NewDaily(date) ==
  [date |-> date, input_tokens |-> 0, output_tokens |-> 0, session_count |-> 0,
   message_count |-> 0]

\* daily_map.entry(date).or_insert(..)
DailyEntry(map, date) ==
  IF date \in DOMAIN map THEN map ELSE map @@ (date :> NewDaily(date))

\* Variant: a bucket marks that the key was seen, and does not count.
HourlyBumpOnce(map, key) ==
  IF key \in DOMAIN map THEN map ELSE map @@ (key :> 1)

\* *hourly_map.entry(key).or_insert(0) += 1
HourlyBump(map, key) ==
  IF key \in DOMAIN map THEN [map EXCEPT ![key] = @ + 1] ELSE map @@ (key :> 1)

\* The branch of a user or assistant line.
DashMessage(acc, line) ==
  LET a1 == [acc EXCEPT !.total_messages = @ + 1]
      ts == Get(line, "timestamp")
  IN IF ts.k # "str" THEN a1
     ELSE LET date == DatePart(ts.v)
              a2 == [a1 EXCEPT !.daily_map =
                       [DailyEntry(@, date) EXCEPT ![date].message_count = @ + 1]]
              dt == parse_from_rfc3339(ts.v)
          IN IF ~dt.ok THEN a2
             ELSE [a2 EXCEPT
                     !.hourly_map = HourlyBump(@, <<dt.hour, dt.weekday>>),
                     !.session_first_ts = IF @.k = "none" THEN Some(dt.instant) ELSE @,
                     !.session_last_ts = Some(dt.instant)]

\* The day bucket of a usage line: the date of its string timestamp, if any.
DayOfUsage(line) ==
  LET ts == Get(line, "timestamp")
  IN IF ts.k = "str" THEN Some(DatePart(ts.v)) ELSE None

\* Variant: the tokens of a line are left out of the totals of its project.
DashUsageNotOfProject(acc, line) ==
  LET usage == Get(Get(line, "message"), "usage")
      input == UnwrapOr(as_u64(Get(usage, "input_tokens")), 0)
      output == UnwrapOr(as_u64(Get(usage, "output_tokens")), 0)
      a1 == [acc EXCEPT !.total_input_tokens = @ + input,
                        !.total_output_tokens = @ + output]
      day == DayOfUsage(line)
  IN IF day.k = "none" THEN a1
     ELSE [a1 EXCEPT !.daily_map =
             [DailyEntry(@, day.v) EXCEPT ![day.v].input_tokens = @ + input,
                                          ![day.v].output_tokens = @ + output]]

\* The branch of a line that has message.usage.
DashUsage(acc, line) ==
  LET usage == Get(Get(line, "message"), "usage")
      input == UnwrapOr(as_u64(Get(usage, "input_tokens")), 0)
      output == UnwrapOr(as_u64(Get(usage, "output_tokens")), 0)
      a1 == [acc EXCEPT !.total_input_tokens = @ + input,
                        !.total_output_tokens = @ + output,
                        !.proj_input = @ + input,
                        !.proj_output = @ + output]
      day == DayOfUsage(line)
  IN IF day.k = "none" THEN a1
     ELSE [a1 EXCEPT !.daily_map =
             [DailyEntry(@, day.v) EXCEPT ![day.v].input_tokens = @ + input,
                                          ![day.v].output_tokens = @ + output]]

\* Variant: token usage read inside the user/assistant branch only.
DashLineUsageOfMessages(acc, line) ==
  IF line.k = "blank" \/ ~IsJson(line) THEN acc
  ELSE LET t == Get(line, "type")
           msg_type == IF t.k = "str" THEN t.v ELSE ""
       IN IF msg_type = "user" \/ msg_type = "assistant"
          THEN IF Get(Get(line, "message"), "usage").k # "absent"
               THEN DashUsage(DashMessage(acc, line), line)
               ELSE DashMessage(acc, line)
          ELSE acc

DashLine(acc, line) ==
  IF line.k = "blank" \/ ~IsJson(line) THEN acc
  ELSE LET t == Get(line, "type")
           msg_type == IF t.k = "str" THEN t.v ELSE ""
           a1 == IF msg_type = "user" \/ msg_type = "assistant"
                 THEN DashMessage(acc, line) ELSE acc
       IN IF Get(Get(line, "message"), "usage").k # "absent"
          THEN DashUsage(a1, line) ELSE a1

RECURSIVE DashLines(_, _, _)
DashLines(lines, i, acc) ==
  IF i > Len(lines) THEN acc ELSE DashLines(lines, i + 1, DashLine(acc, lines[i]))

\* Variant: a span of zero seconds counts.
DurationCountsFromZero(secs) == secs >= 0

\* `if duration.num_seconds() > 0`

DurationCounts(secs) == secs > 0

\* The session span, added after the lines of a session.
DashSpan(acc) ==
  IF acc.session_first_ts.k = "some" /\ acc.session_last_ts.k = "some"
  THEN LET secs == num_seconds(acc.session_last_ts.v - acc.session_first_ts.v)
       IN IF DurationCounts(secs)
          THEN [acc EXCEPT !.total_session_duration_secs = @ + secs,
                           !.sessions_with_duration = @ + 1]
          ELSE acc
  ELSE acc

DashSession(acc, f) ==
  IF ~IsJsonl(f) THEN acc
  ELSE LET a1 == [acc EXCEPT !.proj_sessions = @ + 1, !.total_sessions = @ + 1]
       IN IF ~f.readable THEN a1
          ELSE DashSpan(DashLines(f.lines, 1,
                 [a1 EXCEPT !.session_first_ts = None, !.session_last_ts = None]))

RECURSIVE DashSessions(_, _, _)
DashSessions(files, i, acc) ==
  IF i > Len(files) THEN acc ELSE DashSessions(files, i + 1, DashSession(acc, files[i]))

\* name.replace('-', "/").trim_start_matches('/') on the directory names of
\* the model.
ProjectName(name) ==
  CASE name = "-home-me-app" -> "home/me/app"
    [] name = "-home-me-lib" -> "home/me/lib"
    [] OTHER -> name

DashProject(acc, p, entry) ==
  IF ~entry.is_dir THEN acc
  ELSE LET a1 == DashSessions(entry.files, 1,
                   [acc EXCEPT !.proj_input = 0, !.proj_output = 0, !.proj_sessions = 0])
       IN IF a1.proj_sessions > 0
          THEN [a1 EXCEPT !.project_stats =
                  Append(@, [name |-> ProjectName(entry.name), path |-> p,
                             total_input_tokens |-> a1.proj_input,
                             total_output_tokens |-> a1.proj_output,
                             session_count |-> a1.proj_sessions])]
          ELSE a1

RECURSIVE DashProjects(_, _, _)
DashProjects(entries, p, acc) ==
  IF p > Len(entries) THEN acc
  ELSE DashProjects(entries, p + 1, DashProject(acc, p, entries[p]))

DashStart ==
  [total_input_tokens |-> 0, total_output_tokens |-> 0, total_sessions |-> 0,
   total_messages |-> 0, total_session_duration_secs |-> 0,
   sessions_with_duration |-> 0, daily_map |-> EmptyMap, hourly_map |-> EmptyMap,
   project_stats |-> <<>>, proj_input |-> 0, proj_output |-> 0, proj_sessions |-> 0,
   session_first_ts |-> None, session_last_ts |-> None]

\* HashMap::into_values().collect(), in the one order the sort that follows
\* leaves (the keys are distinct).
MapValues(map, Before(_, _)) ==
  LET keys == DOMAIN map
      n == Cardinality(keys)
      pos == [key \in keys |-> 1 + Cardinality({other \in keys : Before(other, key)})]
  IN [q \in 1..n |-> map[CHOOSE key \in keys : pos[key] = q]]

DateBefore(a, b) == StrRank(a) < StrRank(b)
HourKeyBefore(a, b) == a[2] < b[2] \/ (a[2] = b[2] /\ a[1] < b[1])
TokensDesc(a, b) ==
  a.total_input_tokens + a.total_output_tokens > b.total_input_tokens + b.total_output_tokens

\* An f64 quotient a / b as the fraction it is the rounding of; 0.0 is <<0, 1>>.
Ratio(a, b) == <<a, b>>

\* estimated_cost, in millionths of a dollar: 0.003 / 1000 and 0.015 / 1000
\* dollars per token.
EstimatedCost(input, output) == input * 3 + output * 15

get_dashboard_stats(home) ==
  IF ~home.home THEN [ok |-> FALSE, val |-> "Could not find home directory"]
  ELSE IF ~home.projects.exists
  THEN [ok |-> TRUE,
        val |-> [total_input_tokens |-> 0, total_output_tokens |-> 0,
                 total_sessions |-> 0, total_messages |-> 0, daily_stats |-> <<>>,
                 hourly_activity |-> <<>>, project_stats |-> <<>>,
                 estimated_cost |-> 0, avg_session_minutes |-> Ratio(0, 1)]]
  ELSE LET acc == DashProjects(home.projects.entries, 1, DashStart)
           hourly == [key \in DOMAIN acc.hourly_map |->
                        [hour |-> key[1], day |-> key[2], count |-> acc.hourly_map[key]]]
       IN [ok |-> TRUE,
           val |-> [total_input_tokens |-> acc.total_input_tokens,
                    total_output_tokens |-> acc.total_output_tokens,
                    total_sessions |-> acc.total_sessions,
                    total_messages |-> acc.total_messages,
                    daily_stats |-> MapValues(acc.daily_map, DateBefore),
                    hourly_activity |-> MapValues(hourly, HourKeyBefore),
                    project_stats |-> SortBy(acc.project_stats, TokensDesc),
                    estimated_cost |->
                      EstimatedCost(acc.total_input_tokens, acc.total_output_tokens),
                    avg_session_minutes |->
                      IF acc.sessions_with_duration > 0
                      THEN Ratio(acc.total_session_duration_secs,
                                 acc.sessions_with_duration * 60)
                      ELSE Ratio(0, 1)]]

(***************************************************************************)
(* search_messages, extract_text_content, create_preview                   *)
(***************************************************************************)
\* char::to_lowercase on the letters of the model.
LowerChar(c) ==
  CASE c = "F" -> "f"
    [] c = "O" -> "o"
    [] c = "X" -> "x"
    [] OTHER -> c

to_lowercase(text) == [i \in 1..Len(text) |-> LowerChar(text[i])]

\* str::find: the least offset (from 0) at which needle occurs, or -1 (None).
Find(hay, needle) ==
  LET at == {q \in 0..(Len(hay) - Len(needle)) :
               \A n \in 1..Len(needle) : hay[q + n] = needle[n]}
  IN IF at = {} THEN -1 ELSE CHOOSE q \in at : \A other \in at : q <= other

Contains(hay, needle) == Find(hay, needle) # -1

\* &text[start..end]
Slice(text, start, end) == SubSeq(text, start + 1, end)

Ellipsis == <<".", ".", ".">>

NewlinesToSpaces(text) == [i \in 1..Len(text) |-> IF text[i] = "\n" THEN " " ELSE text[i]]

\* Variant: the ellipsis is put whenever the match is not at the very start
\* or the very end of the text.
create_preview_marks_by_match(text, query, max_len) ==
  LET pos == Find(to_lowercase(text), query)
  IN IF pos # -1
     THEN LET start == Max(pos - PreviewBefore, 0)
              end == Min(pos + Len(query) + PreviewAfter, Len(text))
              p0 == Slice(text, start, end)
              p1 == IF pos > 0 THEN Ellipsis \o p0 ELSE p0
              p2 == IF pos + Len(query) < Len(text) THEN p1 \o Ellipsis ELSE p1
          IN NewlinesToSpaces(p2)
     ELSE LET preview == SubSeq(text, 1, Min(max_len, Len(text)))
          IN IF Len(text) > max_len THEN preview \o Ellipsis ELSE preview

create_preview(text, query, max_len) ==
  LET pos == Find(to_lowercase(text), query)
  IN IF pos # -1
     THEN LET start == Max(pos - PreviewBefore, 0)
              end == Min(pos + Len(query) + PreviewAfter, Len(text))
              p0 == Slice(text, start, end)
              p1 == IF start > 0 THEN Ellipsis \o p0 ELSE p0
              p2 == IF end < Len(text) THEN p1 \o Ellipsis ELSE p1
          IN NewlinesToSpaces(p2)
     ELSE LET preview == SubSeq(text, 1, Min(max_len, Len(text)))
          IN IF Len(text) > max_len THEN preview \o Ellipsis ELSE preview

IsTextBlock(item) ==
  /\ Get(item, "type").k = "str"
  /\ Get(item, "type").v = "text"
  /\ Get(item, "text").k = "str"

RECURSIVE JoinLines(_, _)
JoinLines(items, i) ==
  IF i > Len(items) THEN <<>>
  ELSE IF i = Len(items) THEN Get(items[i], "text").v
  ELSE Get(items[i], "text").v \o <<"\n">> \o JoinLines(items, i + 1)

extract_text_content(message) ==
  IF message.k = "none" THEN <<>>
  ELSE IF message.v.content.k = "none" THEN <<>>
  ELSE LET content == message.v.content IN
    CASE content.k = "str" -> content.v
      [] content.k = "arr" ->
           JoinLines(SelectSeq(content.v, LAMBDA item : IsTextBlock(item)), 1)
      [] OTHER -> <<>>

\* The texts a raw line holds: a text of the JSON stands in the line as it
\* is (the letters of the model need no escape).
BlockTexts(content) ==
  IF content.k # "arr" THEN {}
  ELSE {Get(content.v[i], "text").v :
          i \in {i \in 1..Len(content.v) : Get(content.v[i], "text").k = "str"}}

RawTexts(line) ==
  LET top == Get(line, "content")
      inner == Get(Get(line, "message"), "content")
  IN (IF top.k = "str" THEN {top.v} ELSE {})
       \cup (IF inner.k = "str" THEN {inner.v} ELSE {})
       \cup BlockTexts(inner)

\* line.to_lowercase().contains(&query_lower)
RawLineContains(line, query_lower) ==
  \E text \in RawTexts(line) : Contains(to_lowercase(text), query_lower)

\* The conditions under which the loop body reaches results.push.
SearchHit(line, query_lower) ==
  /\ line.k # "blank"
  /\ RawLineContains(line, query_lower)
  /\ ParseMessageOk(line)
  /\ LET msg == MessageOf(line)
         msg_type == UnwrapOr(msg.msg_type, "")
     IN /\ msg_type = "user" \/ msg_type = "assistant"
        /\ Contains(to_lowercase(extract_text_content(msg.message)), query_lower)

SearchResultOf(line, query_lower, entry, p, f, i) ==
  LET msg == MessageOf(line)
  IN [project_name |-> ProjectName(entry.name),
      project_path |-> p,
      session_id |-> f.stem,
      session_path |-> <<p, i>>,
      message_uuid |-> UnwrapOr(msg.uuid, ""),
      role |-> IF msg.message.k = "some" THEN UnwrapOr(msg.message.v.role, "") ELSE "",
      content_preview |->
        create_preview(extract_text_content(msg.message), query_lower, PreviewMaxLen),
      timestamp |-> UnwrapOr(msg.timestamp, "")]

SearchFile(query_lower, entry, p, f, i) ==
  IF ~IsJsonl(f) \/ ~f.readable THEN <<>>
  ELSE LET hits == SelectSeq(f.lines, LAMBDA line : SearchHit(line, query_lower))
       IN [n \in 1..Len(hits) |-> SearchResultOf(hits[n], query_lower, entry, p, f, i)]

RECURSIVE SearchFiles(_, _, _, _)
SearchFiles(query_lower, entry, p, i) ==
  IF i > Len(entry.files) THEN <<>>
  ELSE SearchFile(query_lower, entry, p, entry.files[i], i)
         \o SearchFiles(query_lower, entry, p, i + 1)

RECURSIVE SearchProjects(_, _, _)
SearchProjects(query_lower, entries, p) ==
  IF p > Len(entries) THEN <<>>
  ELSE (IF entries[p].is_dir THEN SearchFiles(query_lower, entries[p], p, 1) ELSE <<>>)
         \o SearchProjects(query_lower, entries, p + 1)

\* results.sort_by(|a, b| b.timestamp.cmp(&a.timestamp)): the sort is stable,
\* so the results stand by timestamp from the greatest string to the least,
\* and in scan order within one timestamp.
RECURSIVE ByTimestampFrom(_, _)
ByTimestampFrom(results, rank) ==
  IF rank < 0 THEN <<>>
  ELSE SelectSeq(results, LAMBDA r : StrRank(r.timestamp) = rank)
         \o ByTimestampFrom(results, rank - 1)

SortByTimestampDesc(results) == ByTimestampFrom(results, StrRank(TsBad))

\* Variant: results.truncate is applied before the sort.
TruncateThenSort(results) ==
  SortByTimestampDesc(SubSeq(results, 1, Min(MaxResults, Len(results))))

\* results.sort_by(..); results.truncate(100);
SortThenTruncate(results) ==
  LET sorted == SortByTimestampDesc(results)
  IN SubSeq(sorted, 1, Min(MaxResults, Len(sorted)))

search_messages(query) ==
  IF ~fs.home THEN [ok |-> FALSE, val |-> "Could not find home directory"]
  ELSE IF ~fs.projects.exists THEN [ok |-> TRUE, val |-> <<>>]
  ELSE [ok |-> TRUE,
        val |-> SortThenTruncate(
                  SearchProjects(to_lowercase(query), fs.projects.entries, 1))]

(***************************************************************************)
(* get_projects                                                            *)
(***************************************************************************)
\* The path of ~/.claude/transcripts among the project paths.
TranscriptsPath == -1

\* entries.flatten().filter(|e| extension == "jsonl").count()
JsonlCount(files) == Len(SelectSeq(files, LAMBDA f : IsJsonl(f)))

\* String::cmp on the project names of the model.
NameRank(name) ==
  CASE name = "OpenCode Sessions" -> 0
    [] name = "home/me/app" -> 1
    [] name = "home/me/lib" -> 2

NameBefore(a, b) == NameRank(a.name) < NameRank(b.name)

RECURSIVE ProjectsLoop(_, _, _)
ProjectsLoop(entries, p, projects) ==
  IF p > Len(entries) THEN projects
  ELSE LET session_count == JsonlCount(entries[p].files)
       IN ProjectsLoop(entries, p + 1,
            IF entries[p].is_dir /\ session_count > 0
            THEN Append(projects, [name |-> ProjectName(entries[p].name), path |-> p,
                                   session_count |-> session_count])
            ELSE projects)

\* The block that follows the loop: the transcripts directory.
TranscriptsProject(home) ==
  IF home.transcripts.exists /\ JsonlCount(home.transcripts.files) > 0
  THEN <<[name |-> "OpenCode Sessions", path |-> TranscriptsPath,
          session_count |-> JsonlCount(home.transcripts.files)]>>
  ELSE <<>>

get_projects ==
  IF ~fs.home THEN [ok |-> FALSE, val |-> "Could not find home directory"]
  ELSE IF ~fs.projects.exists THEN [ok |-> TRUE, val |-> <<>>]
  ELSE [ok |-> TRUE,
        val |-> SortBy(ProjectsLoop(fs.projects.entries, 1, <<>>) \o TranscriptsProject(fs),
                       NameBefore)]

(***************************************************************************)
(* get_session_context, get_git_commits                                    *)
(***************************************************************************)
\* The least and the greatest string of a non-empty list (Iterator::min, max).
StrMin(strs) ==
  strs[CHOOSE i \in 1..Len(strs) : \A j \in 1..Len(strs) : StrRank(strs[i]) <= StrRank(strs[j])]

StrMax(strs) ==
  strs[CHOOSE i \in 1..Len(strs) : \A j \in 1..Len(strs) : StrRank(strs[i]) >= StrRank(strs[j])]

\* A line of the log's output is a text; str::contains('|').
HasPipe(text) == \E i \in 1..Len(text) : text[i] = "|"

\* str::trim
Trim(text) ==
  LET keep == {i \in 1..Len(text) : ~IsWhite(text[i])}
  IN IF keep = {} THEN <<>>
     ELSE SubSeq(text, CHOOSE i \in keep : \A j \in keep : i <= j,
                       CHOOSE i \in keep : \A j \in keep : i >= j)

\* line.splitn(3, '|').collect()
Splitn3(text) ==
  LET pipes == {i \in 1..Len(text) : text[i] = "|"}
      first == CHOOSE i \in pipes : \A j \in pipes : i <= j
      rest == pipes \ {first}
      second == CHOOSE i \in rest : \A j \in rest : i <= j
  IN IF pipes = {} THEN <<text>>
     ELSE IF rest = {} THEN <<SubSeq(text, 1, first - 1), SubSeq(text, first + 1, Len(text))>>
     ELSE <<SubSeq(text, 1, first - 1), SubSeq(text, first + 1, second - 1),
            SubSeq(text, second + 1, Len(text))>>

\* The body of `for line in stdout.lines()`; st has commits and
\* current_commit.
CommitStep(st, line) ==
  IF HasPipe(line)
  THEN LET pushed == IF st.current_commit.k = "some"
                     THEN Append(st.commits, st.current_commit.v) ELSE st.commits
           parts == Splitn3(line)
       IN [commits |-> pushed,
           current_commit |->
             IF Len(parts) >= 3
             THEN Some([hash |-> parts[1], message |-> parts[2], timestamp |-> parts[3],
                        files |-> <<>>])
             ELSE None]
  ELSE IF ~TrimIsEmpty(line) /\ st.current_commit.k = "some"
  THEN [st EXCEPT !.current_commit.v.files = Append(@, Trim(line))]
  ELSE st

RECURSIVE CommitLoop(_, _, _)
CommitLoop(stdout, i, st) ==
  IF i > Len(stdout) THEN st ELSE CommitLoop(stdout, i + 1, CommitStep(st, stdout[i]))

ParseCommits(stdout) ==
  LET st == CommitLoop(stdout, 1, [commits |-> <<>>, current_commit |-> None])
  IN IF st.current_commit.k = "some" THEN Append(st.commits, st.current_commit.v)
     ELSE st.commits

NotInvoked == [invoked |-> FALSE, dir |-> <<>>, since |-> "", until |-> ""]

\* Variant: the window is that of the first and the last line.
GitWindowOfFileOrder(timestamps) ==
  [start_time |-> timestamps[1], end_time |-> timestamps[Len(timestamps)]]

\* start_time and end_time
GitWindow(timestamps) ==
  [start_time |-> StrMin(timestamps), end_time |-> StrMax(timestamps)]

\* Variant: the exit status is not looked at.
get_git_commits_any_status(project_path, timestamps, git) ==
  IF timestamps = <<>> THEN [commits |-> <<>>, call |-> NotInvoked]
  ELSE LET w == GitWindow(timestamps)
           call == [invoked |-> TRUE, dir |-> project_path,
                    since |-> w.start_time, until |-> w.end_time]
       IN IF w.start_time = "" \/ w.end_time = "" THEN [commits |-> <<>>, call |-> NotInvoked]
          ELSE IF git.outcome = "spawn_error" THEN [commits |-> <<>>, call |-> call]
          ELSE [commits |-> ParseCommits(git.stdout), call |-> call]

\* git is what the subsystem does when it is invoked: outcome "spawn_error"
\* (Command::output is Err), "exit_nonzero" or "ok", and its stdout.  The
\* result has the commits, and the invocation made (call).
get_git_commits(project_path, timestamps, git) ==
  IF timestamps = <<>> THEN [commits |-> <<>>, call |-> NotInvoked]
  ELSE LET w == GitWindow(timestamps)
           call == [invoked |-> TRUE, dir |-> project_path,
                    since |-> w.start_time, until |-> w.end_time]
       IN IF w.start_time = "" \/ w.end_time = "" THEN [commits |-> <<>>, call |-> NotInvoked]
          ELSE IF git.outcome = "spawn_error" THEN [commits |-> <<>>, call |-> call]
          ELSE IF git.outcome = "exit_nonzero" THEN [commits |-> <<>>, call |-> call]
          ELSE [commits |-> ParseCommits(git.stdout), call |-> call]

\* The file path of a tool_use block, or None.
ToolFilePath(item) ==
  LET name == Get(item, "name")
      tool_name == IF name.k = "str" THEN name.v ELSE ""
      input == Get(item, "input")
      path == CASE tool_name \in {"Edit", "Write"} -> Get(input, "file_path")
                [] tool_name \in {"mcp_edit", "mcp_write"} -> Get(input, "filePath")
                [] OTHER -> JAbsent
  IN IF path.k = "str" THEN Some([file_path |-> path.v, action |-> tool_name]) ELSE None

IsToolUse(item) == Get(item, "type").k = "str" /\ Get(item, "type").v = "tool_use"

LineTimestamp(line) ==
  IF Get(line, "timestamp").k = "str" THEN Get(line, "timestamp").v ELSE ""

LineFileChanges(line) ==
  LET content == Get(Get(line, "message"), "content")
  IN IF content.k # "arr" THEN <<>>
     ELSE LET tools == SelectSeq(content.v,
                         LAMBDA item : IsToolUse(item) /\ ToolFilePath(item).k = "some")
          IN [n \in 1..Len(tools) |->
                [file_path |-> ToolFilePath(tools[n]).v.file_path,
                 action |-> ToolFilePath(tools[n]).v.action,
                 timestamp |-> LineTimestamp(line)]]

ContextStep(st, line) ==
  IF line.k = "blank" \/ ~IsJson(line) THEN st
  ELSE [file_changes |-> st.file_changes \o LineFileChanges(line),
        timestamps |-> IF LineTimestamp(line) # ""
                       THEN Append(st.timestamps, LineTimestamp(line))
                       ELSE st.timestamps]

RECURSIVE ContextLoop(_, _, _)
ContextLoop(lines, i, st) ==
  IF i > Len(lines) THEN st ELSE ContextLoop(lines, i + 1, ContextStep(st, lines[i]))

get_session_context(sp, project_name, git) ==
  IF ~SessionExists(sp)
  THEN [ok |-> FALSE, val |-> "Session file does not exist", call |-> NotInvoked]
  ELSE IF ~FileAt(sp).readable
  THEN [ok |-> FALSE, val |-> "read_to_string failed", call |-> NotInvoked]
  ELSE LET st == ContextLoop(FileAt(sp).lines, 1, [file_changes |-> <<>>, timestamps |-> <<>>])
           project_path == <<"/", project_name>>
           got == get_git_commits(project_path, st.timestamps, git)
       IN [ok |-> TRUE,
           val |-> [file_changes |-> st.file_changes, git_commits |-> got.commits,
                    project_path |-> project_path],
           call |-> got.call]

(***************************************************************************)
(* Writers and commands over one project directory.                        *)
(***************************************************************************)
Idle == [op |-> "none", arg |-> 0, ok |-> TRUE, val |-> 0]

EmptyTree ==
  [home |-> TRUE,
   projects |-> [exists |-> FALSE, entries |-> <<>>],
   transcripts |-> [exists |-> FALSE, files |-> <<>>]]

OneProject(files) ==
  [home |-> TRUE,
   projects |-> [exists |-> TRUE,
                 entries |-> <<[name |-> "-home-me-app", is_dir |-> TRUE, files |-> files]>>],
   transcripts |-> [exists |-> FALSE, files |-> <<>>]]

WithLines(sp, lines) ==
  [fs EXCEPT !.projects.entries[sp[1]].files[sp[2]].lines = lines]

\* Another process appends a line to a transcript.
WriteLine(sp, Lines, max) ==
  /\ SessionExists(sp)
  /\ Len(FileAt(sp).lines) < max
  /\ \E l \in Lines : fs' = WithLines(sp, Append(FileAt(sp).lines, l))
  /\ ret' = Idle

\* Another process leaves a file in a project directory.
CreateFile(p, old, max) ==
  /\ ProjectExists(p)
  /\ Len(fs.projects.entries[p].files) < max
  /\ LET files == fs.projects.entries[p].files
         f == [NewFile(Len(files) + 1, old.ext, old.modified) EXCEPT
                 !.lines = old.lines, !.readable = old.readable]
     IN fs' = [fs EXCEPT !.projects.entries[p].files = Append(files, f)]
  /\ ret' = Idle

\* A file becomes unreadable (permissions, invalid UTF-8).
MakeUnreadable(sp) ==
  /\ SessionExists(sp)
  /\ FileAt(sp).readable
  /\ fs' = [fs EXCEPT !.projects.entries[sp[1]].files[sp[2]].readable = FALSE]
  /\ ret' = Idle

GetSessions(p) ==
  /\ ret.op = "none"
  /\ ret' = [op |-> "get_sessions", arg |-> p, ok |-> get_sessions(p).ok,
             val |-> get_sessions(p).val]
  /\ UNCHANGED fs

GetMessages(sp) ==
  /\ ret.op = "none"
  /\ ret' = [op |-> "get_messages", arg |-> sp, ok |-> get_messages(sp).ok,
             val |-> get_messages(sp).val]
  /\ UNCHANGED fs

ScanStats(sp) ==
  /\ ret.op = "none"
  /\ SessionExists(sp)
  /\ ret' = [op |-> "calculate_session_stats", arg |-> sp, ok |-> TRUE,
             val |-> calculate_session_stats(FileAt(sp))]
  /\ UNCHANGED fs

\* The caller takes the result.
Return ==
  /\ ret.op # "none"
  /\ ret' = Idle
  /\ UNCHANGED fs

InitScan ==
  /\ fs = OneProject(<<NewFile(1, "jsonl", 2)>>)
  /\ ret = Idle

NextScan ==
  \/ WriteLine(<<1, 1>>, ScanWritten, MaxLines)
  \/ \E old \in OldFiles : CreateFile(1, old, MaxFiles)
  \/ MakeUnreadable(<<1, 1>>)
  \/ \E p \in 0..1 : GetSessions(p)
  \/ \E f \in 0..1 : GetMessages(<<1, f>>)
  \/ ScanStats(<<1, 1>>)
  \/ Return

SpecScan == InitScan /\ [][NextScan]_vars

(***************************************************************************)
(* Writers and commands over the whole projects directory.                 *)
(***************************************************************************)
DashTree ==
  [home |-> TRUE,
   projects |->
     [exists |-> TRUE,
      entries |-> <<[name |-> "-home-me-app", is_dir |-> TRUE,
                     files |-> <<NewFile(1, "jsonl", 2),
                                 [NewFile(2, "txt", 4) EXCEPT !.lines = <<LnAsstB>>],
                                 [NewFile(3, "jsonl", 3) EXCEPT
                                    !.lines = <<LnUserA, LnAsstB>>,
                                    !.readable = FALSE]>>],
                    [name |-> "-home-me-lib", is_dir |-> TRUE, files |-> <<>>],
                    [name |-> "notes.txt", is_dir |-> FALSE, files |-> <<>>]>>],
   transcripts |-> [exists |-> FALSE, files |-> <<>>]]

GetDashboardStats ==
  /\ ret.op = "none"
  /\ ret' = [op |-> "get_dashboard_stats", arg |-> 0, ok |-> get_dashboard_stats(fs).ok,
             val |-> get_dashboard_stats(fs).val]
  /\ UNCHANGED fs

InitDash ==
  /\ fs \in {EmptyTree, DashTree}
  /\ ret = Idle

NextDash ==
  \/ WriteLine(<<1, 1>>, DashWritten, MaxDashLines)
  \/ \E old \in DashOldFiles : CreateFile(2, old, MaxOldFiles)
  \/ GetDashboardStats
  \/ ScanStats(<<1, 1>>)
  \/ Return

SpecDash == InitDash /\ [][NextDash]_vars

(***************************************************************************)
(* The data model's terms, for the properties below.                       *)
(***************************************************************************)
NonBlankString(val) ==
  val.k = "str" /\ \E i \in 1..Len(val.v) : val.v[i] \notin {" ", "\n", "\t"}

HasNonBlankTextBlock(val) ==
  /\ val.k = "arr"
  /\ \E i \in 1..Len(val.v) :
       /\ Get(val.v[i], "type").k = "str"
       /\ Get(val.v[i], "type").v = "text"
       /\ NonBlankString(Get(val.v[i], "text"))

TypeIn(line, types) == Get(line, "type").k = "str" /\ Get(line, "type").v \in types

\* A primary-schema user/assistant line with non-blank text content.
PrimaryLine(line) ==
  /\ ParseMessageOk(line)
  /\ TypeIn(line, {"user", "assistant"})
  /\ LET content == Get(Get(line, "message"), "content")
     IN NonBlankString(content) \/ HasNonBlankTextBlock(content)

\* A legacy-schema line with type "user" and non-blank string content.
LegacyLine(line) ==
  /\ ParseTranscriptOk(line)
  /\ TypeIn(line, {"user"})
  /\ NonBlankString(Get(line, "content"))

QualifyingLine(line) == PrimaryLine(line) \/ LegacyLine(line)

CarriesUsage(line) == Get(Get(line, "message"), "usage").k = "obj"

Listed(sessions, path) == \E n \in 1..Len(sessions) : sessions[n].path = path

\* C1: get_sessions lists a .jsonl file of the directory exactly when the
\* file has at least one qualifying line (a file that cannot be read scans to
\* messageCount 0), once each, whatever token usage the file carries.
C1_ListedIffQualifying ==
  (ret.op = "get_sessions" /\ ret.ok) =>
    LET files == fs.projects.entries[ret.arg].files
        listed == {i \in 1..Len(files) : Listed(ret.val, <<ret.arg, i>>)}
    IN /\ \A i \in 1..Len(files) :
            i \in listed <=>
              /\ IsJsonl(files[i])
              /\ files[i].readable
              /\ \E j \in 1..Len(files[i].lines) : QualifyingLine(files[i].lines[j])
       /\ Len(ret.val) = Cardinality(listed)

\* A listing that leaves out a .jsonl file with token usage and no qualifying
\* line, next to a file it lists.
C1_Witness ==
  /\ ret.op = "get_sessions"
  /\ ret.ok
  /\ Len(ret.val) >= 1
  /\ LET files == fs.projects.entries[ret.arg].files
     IN \E i \in 1..Len(files) :
          /\ IsJsonl(files[i])
          /\ files[i].readable
          /\ \E j \in 1..Len(files[i].lines) : CarriesUsage(files[i].lines[j])
          /\ ~Listed(ret.val, <<ret.arg, i>>)

\* The Message the claim expects of a qualifying line.
MessageFor(m, line) ==
  IF PrimaryLine(line)
  THEN /\ m.msg_type = Get(line, "type")
       /\ m.timestamp = Opt(Get(line, "timestamp"))
       /\ m.message.k = "some"
       /\ m.message.v.role = Opt(Get(Get(line, "message"), "role"))
       /\ m.message.v.content = Get(Get(line, "message"), "content")
  ELSE /\ m.msg_type = JStr("user")
       /\ m.timestamp = Opt(Get(line, "timestamp"))
       /\ m.uuid = None
       /\ m.message.k = "some"
       /\ m.message.v.role = JStr("user")
       /\ m.message.v.content = Get(line, "content")

\* C3: get_messages returns one Message for each qualifying line and none for
\* any other line, in line order: the k-th Message is that of the k-th
\* qualifying line, the line's own when it is a primary line and the
\* synthesized one with role "user" otherwise.
C3_OneMessagePerQualifyingLine ==
  (ret.op = "get_messages" /\ ret.ok) =>
    LET lines == FileAt(ret.arg).lines
        idx == {i \in 1..Len(lines) : QualifyingLine(lines[i])}
        nth(n) == CHOOSE i \in idx : Cardinality({j \in idx : j <= i}) = n
    IN /\ Len(ret.val) = Cardinality(idx)
       /\ \A n \in 1..Len(ret.val) : MessageFor(ret.val[n], lines[nth(n)])

\* A file with a line that is left out, and a synthesized Message of a line
\* that fails the primary predicate.
C3_Witness ==
  /\ ret.op = "get_messages"
  /\ ret.ok
  /\ LET lines == FileAt(ret.arg).lines
     IN /\ \E i \in 1..Len(lines) : lines[i].k = "obj" /\ ~QualifyingLine(lines[i])
        /\ \E i \in 1..Len(lines) : ~PrimaryLine(lines[i]) /\ LegacyLine(lines[i])
        /\ Len(ret.val) >= 1

(***************************************************************************)
(* Properties of the token and message totals.                             *)
(***************************************************************************)
\* The transcript the writer appends to.
Active == <<1, 1>>

ActiveLines == IF SessionExists(Active) THEN FileAt(Active).lines ELSE <<>>

Without(seq, j) == SubSeq(seq, 1, j - 1) \o SubSeq(seq, j + 1, Len(seq))

Permuted(seq, pi) == [i \in 1..Len(seq) |-> seq[pi[i]]]

\* A usage object whose counters are numbers, a missing counter being 0.
Counter(val) == IF val.k = "num" THEN val.v ELSE 0

CounterOk(val) == val.k = "absent" \/ (val.k = "num" /\ val.v >= 0)

CountedUsage(line) ==
  LET usage == Get(Get(line, "message"), "usage")
  IN /\ usage.k = "obj"
     /\ CounterOk(Get(usage, "input_tokens"))
     /\ CounterOk(Get(usage, "output_tokens"))

TokensOf(line) ==
  LET usage == Get(Get(line, "message"), "usage")
  IN <<Counter(Get(usage, "input_tokens")), Counter(Get(usage, "output_tokens"))>>

GlobalTotals(stats) == <<stats.total_input_tokens, stats.total_output_tokens>>

ProjectTotals(stats, path) ==
  LET found == {n \in 1..Len(stats.project_stats) : stats.project_stats[n].path = path}
  IN IF found = {} THEN <<0, 0>>
     ELSE LET n == CHOOSE n \in found : TRUE
          IN <<stats.project_stats[n].total_input_tokens,
               stats.project_stats[n].total_output_tokens>>

Dates(stats) == {stats.daily_stats[n].date : n \in 1..Len(stats.daily_stats)}

DayTotals(stats, date) ==
  LET found == {n \in 1..Len(stats.daily_stats) : stats.daily_stats[n].date = date}
  IN IF found = {} THEN <<0, 0>>
     ELSE LET n == CHOOSE n \in found : TRUE
          IN <<stats.daily_stats[n].input_tokens, stats.daily_stats[n].output_tokens>>

Plus(a, b) == <<a[1] + b[1], a[2] + b[2]>>

\* What the scanner and the dashboard return without line j of the transcript.
ScanWithout(j) == StatsOfLines(Without(ActiveLines, j))

DashWithout(j) == get_dashboard_stats(WithLines(Active, Without(ActiveLines, j))).val

\* The totals that take the tokens of line j whatever the line is: the
\* scanner's, the dashboard's global totals and those of the project.
UsageAddsToTotals(j) ==
  LET tokens == TokensOf(ActiveLines[j])
  IN /\ ret.op = "calculate_session_stats" =>
          <<ret.val[1], ret.val[2]>> = Plus(<<ScanWithout(j)[1], ScanWithout(j)[2]>>, tokens)
     /\ (ret.op = "get_dashboard_stats" /\ ret.ok) =>
          /\ GlobalTotals(ret.val) = Plus(GlobalTotals(DashWithout(j)), tokens)
          /\ ProjectTotals(ret.val, Active[1]) =
               Plus(ProjectTotals(DashWithout(j), Active[1]), tokens)

\* The claim as stated: every line with usage adds its tokens to the session,
\* global and project totals and to the totals of a day.
C2_UsageAddsToADayAlways ==
  \A j \in 1..Len(ActiveLines) :
    CountedUsage(ActiveLines[j]) =>
      /\ UsageAddsToTotals(j)
      /\ (ret.op = "get_dashboard_stats" /\ ret.ok) =>
           \E date \in Dates(ret.val) :
             DayTotals(ret.val, date) =
               Plus(DayTotals(DashWithout(j), date), TokensOf(ActiveLines[j]))

\* C2 (amended): every line with usage (i, o) adds (i, o) to the session
\* totals of the scanner and to the global and project totals of the
\* dashboard, whatever its type; it adds (i, o) to the totals of the day of
\* its timestamp when it has a string timestamp, and to no day otherwise.
C2_UsageCountedWhateverTheType ==
  \A j \in 1..Len(ActiveLines) :
    CountedUsage(ActiveLines[j]) =>
      /\ UsageAddsToTotals(j)
      /\ (ret.op = "get_dashboard_stats" /\ ret.ok) =>
           LET ts == Get(ActiveLines[j], "timestamp")
               tokens == TokensOf(ActiveLines[j])
           IN IF ts.k = "str"
              THEN DayTotals(ret.val, DatePart(ts.v)) =
                     Plus(DayTotals(DashWithout(j), DatePart(ts.v)), tokens)
              ELSE \A date \in Dates(ret.val) :
                     DayTotals(ret.val, date) = DayTotals(DashWithout(j), date)

\* A dashboard over a transcript with a usage line that has no type and no
\* timestamp and one that has a timestamp and a type that is not a message's.
C2_Witness ==
  /\ ret.op = "get_dashboard_stats"
  /\ ret.ok
  /\ \E j \in 1..Len(ActiveLines) :
       /\ CountedUsage(ActiveLines[j])
       /\ Get(ActiveLines[j], "type").k = "absent"
       /\ Get(ActiveLines[j], "timestamp").k = "absent"
  /\ \E j \in 1..Len(ActiveLines) :
       /\ CountedUsage(ActiveLines[j])
       /\ TypeIn(ActiveLines[j], {"system"})
       /\ Get(ActiveLines[j], "timestamp").k = "str"
  /\ ret.val.total_input_tokens > 0

\* C7: the scanner's (inputTokens, outputTokens, messageCount) and the
\* dashboard's total_messages and token totals are the same for every
\* permutation of the lines of the transcript.
C7_TotalsInvariantUnderReordering ==
  \A pi \in Permutations(1..Len(ActiveLines)) :
    /\ ret.op = "calculate_session_stats" =>
         ret.val = StatsOfLines(Permuted(ActiveLines, pi))
    /\ (ret.op = "get_dashboard_stats" /\ ret.ok) =>
         LET other == get_dashboard_stats(WithLines(Active, Permuted(ActiveLines, pi))).val
         IN /\ ret.val.total_messages = other.total_messages
            /\ GlobalTotals(ret.val) = GlobalTotals(other)

\* A scan of two different lines, a primary one before a legacy one, that
\* counts messages and tokens.
C7_Witness ==
  /\ ret.op = "calculate_session_stats"
  /\ Len(ActiveLines) >= 2
  /\ PrimaryLine(ActiveLines[1])
  /\ ~PrimaryLine(ActiveLines[2]) /\ LegacyLine(ActiveLines[2])
  /\ ret.val[3] = 2
  /\ ret.val[1] > 0

(***************************************************************************)
(* Properties of avg_session_minutes.                                      *)
(***************************************************************************)
\* The sessions of the tree: the .jsonl files of the project directories.
SessionPaths ==
  IF ~fs.projects.exists THEN {}
  ELSE UNION {{<<p, i>> : i \in {i \in 1..Len(fs.projects.entries[p].files) :
                                    /\ fs.projects.entries[p].is_dir
                                    /\ IsJsonl(fs.projects.entries[p].files[i])}} :
                p \in 1..Len(fs.projects.entries)}

\* The lines of a session whose timestamp the dashboard parses: user and
\* assistant lines with an RFC3339 timestamp.
ParsedLines(sp) ==
  IF ~FileAt(sp).readable THEN {}
  ELSE {i \in 1..Len(FileAt(sp).lines) :
          LET line == FileAt(sp).lines[i]
          IN /\ TypeIn(line, {"user", "assistant"})
             /\ Get(line, "timestamp").k = "str"
             /\ parse_from_rfc3339(Get(line, "timestamp").v).ok}

InstantAt(sp, i) == parse_from_rfc3339(Get(FileAt(sp).lines[i], "timestamp").v).instant

FirstInstant(sp) == InstantAt(sp, CHOOSE i \in ParsedLines(sp) : \A j \in ParsedLines(sp) : i <= j)
LastInstant(sp) == InstantAt(sp, CHOOSE i \in ParsedLines(sp) : \A j \in ParsedLines(sp) : i >= j)

\* The sessions the claim excludes.
SpanExcluded(sp) ==
  \/ Cardinality(ParsedLines(sp)) <= 1
  \/ LastInstant(sp) <= FirstInstant(sp)

\* The duration of a session that is not excluded, in whole seconds.
SpanSeconds(sp) == (LastInstant(sp) - FirstInstant(sp)) \div 2

SpanCounted == {sp \in SessionPaths : ~SpanExcluded(sp) /\ SpanSeconds(sp) > 0}

RECURSIVE SumSpanSeconds(_)
SumSpanSeconds(sessions) ==
  IF sessions = {} THEN 0
  ELSE LET sp == CHOOSE sp \in sessions : TRUE
       IN SpanSeconds(sp) + SumSpanSeconds(sessions \ {sp})

\* C8: avg_session_minutes is (the sum of the durations of the counted
\* sessions, in seconds / their number) / 60, where no session with at most
\* one parsed timestamp or with last timestamp <= first is counted, and it is
\* 0 when no session is counted.
C8_AverageOverPositiveSpans ==
  (ret.op = "get_dashboard_stats" /\ ret.ok) =>
    LET avg == ret.val.avg_session_minutes
        n == Cardinality(SpanCounted)
    IN /\ avg[2] > 0
       /\ IF n = 0 THEN avg[1] = 0
          ELSE avg[1] * (n * 60) = SumSpanSeconds(SpanCounted) * avg[2]

\* A dashboard over a session with one parsed timestamp, a session whose last
\* timestamp is before its first, and a session that is counted.
C8_Witness ==
  /\ ret.op = "get_dashboard_stats"
  /\ ret.ok
  /\ \E sp \in SessionPaths : Cardinality(ParsedLines(sp)) = 1
  /\ \E sp \in SessionPaths :
       Cardinality(ParsedLines(sp)) = 2 /\ LastInstant(sp) < FirstInstant(sp)
  /\ SpanCounted # {}
  /\ ret.val.avg_session_minutes[1] > 0

(***************************************************************************)
(* Writers and the search command.                                         *)
(***************************************************************************)
Rep(c, n) == [i \in 1..n |-> c]

Foo == <<"f", "o", "o">>

\* A line of the primary schema with a uuid.
LineU(uuid, type, timestamp, message) ==
  JObj([uuid |-> JStr(uuid), type |-> type, timestamp |-> timestamp,
        content |-> JAbsent, message |-> message])

NoteBlock(text) == JObj([type |-> JStr("note"), text |-> JStr(text)])

\* 30 x's, "foo", 70 y's
ExampleText == Rep("x", 30) \o Foo \o Rep("y", 70)
\* one character more on each side
LongText == Rep("x", 31) \o Foo \o Rep("y", 71)

SFooA == LineU("a", User, JStr(TsA), Msg(RoleUser, JStr(Foo), JAbsent))
SFooB ==
  LineU("b", Assistant, JStr(TsB),
        Msg(RoleAssistant,
            JArr(<<TextBlock(<<"F", "O", "O">>),
                   ToolUse("Edit", JObj([file_path |-> JStr("a.rs")]))>>), JAbsent))
SFooNoTs == LineU("n", User, JAbsent, Msg(RoleUser, JStr(Foo), JAbsent))
SExample == LineU("example", User, JStr(TsD), Msg(RoleUser, JStr(ExampleText), JAbsent))
SLong == LineU("long", User, JStr(TsC), Msg(RoleUser, JStr(LongText), JAbsent))
SSystemFoo == LineU("s", JStr("system"), JStr(TsD), Msg(JAbsent, JStr(Foo), JAbsent))
SNoteFoo ==
  LineU("t", User, JStr(TsA), Msg(RoleUser, JArr(<<NoteBlock(Foo), TextBlock(Hi)>>), JAbsent))
STwoBlocks ==
  LineU("two", Assistant, JStr(TsB),
        Msg(RoleAssistant, JArr(<<TextBlock(Hi), TextBlock(Foo)>>), JAbsent))
SHello == LineU("h", User, JStr(TsD), Msg(RoleUser, JStr(Hello), JAbsent))
SFooC == LineU("c", User, JStr(TsC), Msg(RoleUser, JStr(Foo), JAbsent))

SearchWritten ==
  {SFooA, SFooB, SFooNoTs, SExample, SLong, SSystemFoo, SNoteFoo, STwoBlocks, SHello}

\* The lines a writer appends many times over.
SearchRepeated == {SFooA, SFooB, SFooNoTs}

Queries == {Foo, <<"F", "o", "o">>}

SearchTree ==
  [home |-> TRUE,
   projects |->
     [exists |-> TRUE,
      entries |-> <<[name |-> "-home-me-app", is_dir |-> TRUE,
                     files |-> <<NewFile(1, "jsonl", 0)>>],
                    [name |-> "notes.txt", is_dir |-> FALSE, files |-> <<>>],
                    [name |-> "-home-me-lib", is_dir |-> TRUE,
                     files |-> <<[NewFile(1, "jsonl", 1) EXCEPT !.lines = <<SHello, SFooC>>],
                                 [NewFile(2, "txt", 1) EXCEPT !.lines = <<SFooC>>],
                                 [NewFile(3, "jsonl", 1) EXCEPT
                                    !.lines = <<SFooC>>, !.readable = FALSE]>>]>>],
   transcripts |-> [exists |-> FALSE, files |-> <<>>]]

\* Another process appends n copies of a line; `modified` counts the writes.
WriteLines(sp, line, n) ==
  /\ SessionExists(sp)
  /\ FileAt(sp).modified < MaxWrites
  /\ fs' = [fs EXCEPT
              !.projects.entries[sp[1]].files[sp[2]].lines = @ \o Rep(line, n),
              !.projects.entries[sp[1]].files[sp[2]].modified = @ + 1]
  /\ ret' = Idle

SearchMessages(query) ==
  /\ ret.op = "none"
  /\ ret' = [op |-> "search_messages", arg |-> query, ok |-> search_messages(query).ok,
             val |-> search_messages(query).val]
  /\ UNCHANGED fs

InitSearch ==
  /\ fs \in {EmptyTree, SearchTree}
  /\ ret = Idle

NextSearch ==
  \/ \E line \in SearchWritten : WriteLines(Active, line, 1)
  \/ \E line \in SearchRepeated : WriteLines(Active, line, BatchSize)
  \/ \E query \in Queries : SearchMessages(query)
  \/ Return

SpecSearch == InitSearch /\ [][NextSearch]_vars

\* The matching messages of the tree: the user and assistant lines, in the
\* readable .jsonl files of the project directories, whose flattened text
\* contains the query, letter case apart.
Matching(line, query) ==
  /\ ParseMessageOk(line)
  /\ TypeIn(line, {"user", "assistant"})
  /\ Contains(to_lowercase(extract_text_content(MessageOf(line).message)),
              to_lowercase(query))

AllMatches(query) ==
  UNION {{<<sp, j>> : j \in {j \in 1..Len(FileAt(sp).lines) :
                               Matching(FileAt(sp).lines[j], query)}} :
           sp \in {sp \in SessionPaths : FileAt(sp).readable}}

MatchTimestamp(m) ==
  LET ts == Get(FileAt(m[1]).lines[m[2]], "timestamp")
  IN IF ts.k = "str" THEN ts.v ELSE ""

Ranks == 0..StrRank(TsBad)

\* C4: search returns min(n, 100) of the n matching messages, sorted by
\* timestamp from the greatest string down, and no match it leaves out has a
\* timestamp greater than that of a result it returns.
C4_MostRecentHundred ==
  (ret.op = "search_messages" /\ ret.ok) =>
    LET all == AllMatches(ret.arg)
        n == Cardinality(all)
        returned(r) == Cardinality({i \in 1..Len(ret.val) : StrRank(ret.val[i].timestamp) = r})
        matching(r) == Cardinality({m \in all : StrRank(MatchTimestamp(m)) = r})
    IN /\ Len(ret.val) = IF n < 100 THEN n ELSE 100
       /\ \A i \in 1..(Len(ret.val) - 1) :
            StrRank(ret.val[i].timestamp) >= StrRank(ret.val[i + 1].timestamp)
       /\ \A r \in Ranks :
            /\ returned(r) <= matching(r)
            /\ returned(r) < matching(r) =>
                 \A i \in 1..Len(ret.val) : StrRank(ret.val[i].timestamp) >= r

\* A search with at least 150 matches, of which the first hundred in scan
\* order are not the most recent.
C4_Witness ==
  /\ ret.op = "search_messages"
  /\ ret.ok
  /\ Cardinality(AllMatches(ret.arg)) >= 150
  /\ Len(ret.val) = 100
  /\ Len(ActiveLines) >= 150
  /\ StrRank(MatchTimestamp(<<Active, 1>>)) < StrRank(MatchTimestamp(<<Active, 150>>))

StartsWith(text, prefix) ==
  Len(text) >= Len(prefix) /\ SubSeq(text, 1, Len(prefix)) = prefix

EndsWith(text, suffix) ==
  Len(text) >= Len(suffix) /\ SubSeq(text, Len(text) - Len(suffix) + 1, Len(text)) = suffix

\* The results of the message whose text is 30 x's, "foo", 70 y's.
ExampleResults == {i \in 1..Len(ret.val) : ret.val[i].message_uuid = "example"}

SearchedFoo == ret.op = "search_messages" /\ ret.ok /\ to_lowercase(ret.arg) = Foo

\* The claim as stated: the preview of the example begins and ends with "...".
C5_ExamplePreviewHasBothEllipses ==
  SearchedFoo =>
    \A i \in ExampleResults :
      /\ StartsWith(ret.val[i].content_preview, Ellipsis)
      /\ EndsWith(ret.val[i].content_preview, Ellipsis)
      /\ Contains(ret.val[i].content_preview, Foo)

\* C5 (amended): for query "foo" and the text of 30 x's, "foo" and 70 y's the
\* window is the whole text, so the preview is the text itself, with no "..."
\* at either end: "foo" with its 30 characters of left context and its 70 of
\* right context.
C5_ExamplePreviewIsWholeText ==
  SearchedFoo =>
    \A i \in ExampleResults :
      /\ ret.val[i].content_preview = Rep("x", 30) \o Foo \o Rep("y", 70)
      /\ ~StartsWith(ret.val[i].content_preview, Ellipsis)
      /\ ~EndsWith(ret.val[i].content_preview, Ellipsis)

C5_Witness == SearchedFoo /\ ExampleResults # {}

(***************************************************************************)
(* Writers and the project listing.                                        *)
(***************************************************************************)
DirNames == <<"-home-me-app", "-home-me-lib">>

NewFiles ==
  {[ext |-> "jsonl", modified |-> 1, readable |-> TRUE, lines |-> <<>>],
   [ext |-> "txt", modified |-> 1, readable |-> TRUE, lines |-> <<>>]}

MkProjectsDir ==
  /\ ~fs.projects.exists
  /\ fs' = [fs EXCEPT !.projects.exists = TRUE]
  /\ ret' = Idle

MkTranscriptsDir ==
  /\ ~fs.transcripts.exists
  /\ fs' = [fs EXCEPT !.transcripts.exists = TRUE]
  /\ ret' = Idle

\* A new entry of the projects directory: a project directory or a plain file.
CreateEntry(is_dir) ==
  /\ fs.projects.exists
  /\ Len(fs.projects.entries) < MaxDirs
  /\ fs' = [fs EXCEPT !.projects.entries =
              Append(@, [name |-> DirNames[Len(fs.projects.entries) + 1],
                         is_dir |-> is_dir, files |-> <<>>])]
  /\ ret' = Idle

CreateProjectFile(p, new) ==
  /\ ProjectExists(p)
  /\ fs.projects.entries[p].is_dir
  /\ CreateFile(p, new, MaxFiles)

CreateTranscript(new) ==
  /\ fs.transcripts.exists
  /\ Len(fs.transcripts.files) < MaxFiles
  /\ fs' = [fs EXCEPT !.transcripts.files =
              Append(@, [NewFile(Len(fs.transcripts.files) + 1, new.ext, new.modified)
                           EXCEPT !.lines = new.lines])]
  /\ ret' = Idle

GetProjects ==
  /\ ret.op = "none"
  /\ ret' = [op |-> "get_projects", arg |-> 0, ok |-> get_projects.ok,
             val |-> get_projects.val]
  /\ UNCHANGED fs

InitProjects ==
  /\ fs = EmptyTree
  /\ ret = Idle

NextProjects ==
  \/ MkProjectsDir
  \/ MkTranscriptsDir
  \/ \E is_dir \in BOOLEAN : CreateEntry(is_dir)
  \/ \E p \in 1..MaxDirs, new \in NewFiles : CreateProjectFile(p, new)
  \/ \E new \in NewFiles : CreateTranscript(new)
  \/ GetProjects
  \/ Return

SpecProjects == InitProjects /\ [][NextProjects]_vars

InProjects(path) == \E n \in 1..Len(ret.val) : ret.val[n].path = path

\* C6, as stated: the listing has a project directory exactly when the
\* directory holds a .jsonl file, and has the legacy-transcripts project
\* exactly when the transcripts directory holds a .jsonl file, whatever the
\* state of the projects directory.
C6_LegacyProjectIffTranscripts ==
  (ret.op = "get_projects" /\ ret.ok) =>
    /\ \A p \in 1..Len(fs.projects.entries) :
         fs.projects.entries[p].is_dir =>
           (InProjects(p) <=>
              \E i \in 1..Len(fs.projects.entries[p].files) :
                IsJsonl(fs.projects.entries[p].files[i]))
    /\ InProjects(TranscriptsPath) <=>
         /\ fs.transcripts.exists
         /\ \E i \in 1..Len(fs.transcripts.files) : IsJsonl(fs.transcripts.files[i])

(***************************************************************************)
(* Writers, the version-control subsystem and the context command.         *)
(***************************************************************************)
CtxEdit ==
  Line(Assistant, JStr(TsB), JAbsent,
       Msg(RoleAssistant,
           JArr(<<TextBlock(Hi), ToolUse("Edit", JObj([file_path |-> JStr("a.rs")]))>>),
           JAbsent))
CtxMcp ==
  Line(Assistant, JStr(TsAhalf), JAbsent,
       Msg(RoleAssistant,
           JArr(<<ToolUse("mcp_write", JObj([filePath |-> JStr("b.rs")])),
                  ToolUse("Read", JObj([file_path |-> JStr("c.rs")]))>>),
           JAbsent))
\* no timestamp; an Edit with the key of the mcp tools, and a Write
CtxNoTs ==
  Line(Assistant, JAbsent, JAbsent,
       Msg(RoleAssistant,
           JArr(<<ToolUse("Edit", JObj([filePath |-> JStr("x.rs")])),
                  ToolUse("Write", JObj([file_path |-> JStr("w.rs")]))>>),
           JAbsent))
\* "timestamp": ""
CtxEmptyTs == Line(User, JStr(""), JAbsent, Msg(RoleUser, JStr(Hi), JAbsent))

CtxWritten ==
  {CtxEdit, CtxMcp, CtxNoTs, CtxEmptyTs, LnUserBadTs, LnTsNumber, LnUserA, LnUserD,
   InvalidLine}

\* The output of `git log --format=%H|%s|%aI --name-only`, line by line.
LogOutput ==
  <<<<"h", "|", "m", "|", "d">>, <<>>, <<"a">>, <<" ", "b", " ">>,
    <<"g", "|", "n", "|", "x", "|", "e">>>>

\* What the subsystem may do when invoked.
GitRuns ==
  {[outcome |-> "spawn_error", stdout |-> <<>>],
   [outcome |-> "exit_nonzero", stdout |-> <<>>],
   [outcome |-> "exit_nonzero", stdout |-> LogOutput],
   [outcome |-> "ok", stdout |-> <<>>],
   [outcome |-> "ok", stdout |-> LogOutput]}

GetSessionContext(sp, project_name, git) ==
  /\ ret.op = "none"
  /\ LET r == get_session_context(sp, project_name, git)
     IN ret' = [op |-> "get_session_context", arg |-> sp, ok |-> r.ok, val |-> r.val,
                call |-> r.call, git |-> git, project_name |-> project_name]
  /\ UNCHANGED fs

InitContext ==
  /\ fs = OneProject(<<NewFile(1, "jsonl", 1)>>)
  /\ ret = Idle

NextContext ==
  \/ WriteLine(Active, CtxWritten, MaxCtxLines)
  \/ MakeUnreadable(Active)
  \/ \E f \in 1..2, git \in GitRuns : GetSessionContext(<<1, f>>, "home/me/app", git)
  \/ Return

SpecContext == InitContext /\ [][NextContext]_vars

GotContext == ret.op = "get_session_context" /\ ret.ok

\* The timestamps of the lines of the session: the non-empty strings under
\* the key "timestamp" of its JSON lines.
CollectedTimestamps ==
  {Get(ActiveLines[i], "timestamp").v :
     i \in {i \in 1..Len(ActiveLines) :
              /\ Get(ActiveLines[i], "timestamp").k = "str"
              /\ Get(ActiveLines[i], "timestamp").v # ""}}

\* The timestamps among them that are dates and times.
ParseableTimestamps == {ts \in CollectedTimestamps : parse_from_rfc3339(ts).ok}

InvokedOnlyWithWindow ==
  ret.call.invoked =>
    /\ CollectedTimestamps # {}
    /\ \A ts \in CollectedTimestamps :
         /\ StrRank(ret.call.since) <= StrRank(ts)
         /\ StrRank(ts) <= StrRank(ret.call.until)
    /\ ret.call.since \in CollectedTimestamps
    /\ ret.call.until \in CollectedTimestamps

\* The claim as stated: with no parseable timestamp in the session there is
\* no commit and no invocation of the subsystem.
C9_NoParseableTimestampNoInvocation ==
  GotContext =>
    /\ ParseableTimestamps = {} => (ret.val.git_commits = <<>> /\ ~ret.call.invoked)
    /\ InvokedOnlyWithWindow

\* C9 (amended): with no line that has a non-empty string timestamp (parsed
\* or not) there is no commit and no invocation of the subsystem; the
\* subsystem is invoked only when a timestamp was collected, with the least
\* and the greatest collected string as the window.
C9_NoTimestampNoInvocation ==
  GotContext =>
    /\ CollectedTimestamps = {} => (ret.val.git_commits = <<>> /\ ~ret.call.invoked)
    /\ InvokedOnlyWithWindow

\* A context of a session with two lines, file changes and no timestamp,
\* taken while the subsystem would have given commits.
C9_Witness ==
  /\ GotContext
  /\ ret.git.outcome = "ok"
  /\ ret.git.stdout # <<>>
  /\ Len(ActiveLines) >= 2
  /\ CollectedTimestamps = {}
  /\ ret.val.file_changes # <<>>
  /\ ~ret.call.invoked

\* C10: when the subsystem fails (it cannot be started, or it exits with a
\* failure status) the context of a readable session is returned with no
\* commits and with the file changes it has when the subsystem succeeds.
C10_GitFailureGivesNoCommits ==
  (ret.op = "get_session_context" /\ SessionExists(ret.arg) /\ FileAt(ret.arg).readable
     /\ ret.git.outcome # "ok") =>
    /\ ret.ok
    /\ ret.val.git_commits = <<>>
    /\ ret.val.file_changes =
         get_session_context(ret.arg, ret.project_name,
                             [outcome |-> "ok", stdout |-> LogOutput]).val.file_changes

\* A context with file changes, taken while the subsystem, invoked, exits
\* with a failure status after it wrote commits.
C10_Witness ==
  /\ GotContext
  /\ ret.call.invoked
  /\ ret.git.outcome = "exit_nonzero"
  /\ ret.git.stdout # <<>>
  /\ ret.val.file_changes # <<>>

(***************************************************************************)
(* Properties of the session span.                                         *)
(***************************************************************************)
\* The parsed instants of a session, whatever the order of its lines.
ParsedInstants(sp) == {InstantAt(sp, i) : i \in ParsedLines(sp)}

EarliestInstant(sp) == CHOOSE t \in ParsedInstants(sp) : \A u \in ParsedInstants(sp) : t <= u
LatestInstant(sp) == CHOOSE t \in ParsedInstants(sp) : \A u \in ParsedInstants(sp) : t >= u

\* The sessions whose latest parsed timestamp is greater than the earliest.
SpanByExtremes ==
  {sp \in SessionPaths : ParsedLines(sp) # {} /\ LatestInstant(sp) > EarliestInstant(sp)}

ExtremeSeconds(sp) == num_seconds(LatestInstant(sp) - EarliestInstant(sp))

RECURSIVE SumExtremeSeconds(_)
SumExtremeSeconds(sessions) ==
  IF sessions = {} THEN 0
  ELSE LET sp == CHOOSE sp \in sessions : TRUE
       IN ExtremeSeconds(sp) + SumExtremeSeconds(sessions \ {sp})

\* C11: every session whose latest parsed timestamp is greater than its
\* earliest, for any order of its lines, adds (latest - earliest) seconds to
\* the duration total and one to the duration-sample counter, and no other
\* session adds anything: the average is that total over that counter.
C11_SpanFromEarliestToLatest ==
  (ret.op = "get_dashboard_stats" /\ ret.ok) =>
    LET avg == ret.val.avg_session_minutes
        n == Cardinality(SpanByExtremes)
    IN /\ avg[2] > 0
       /\ IF n = 0 THEN avg[1] = 0
          ELSE avg[1] * (n * 60) = SumExtremeSeconds(SpanByExtremes) * avg[2]

(***************************************************************************)
(* Properties of the hourly activity.                                      *)
(***************************************************************************)
\* The lines of a session the dashboard reads as JSON with type user or
\* assistant.
TypedLines(sp) ==
  IF ~FileAt(sp).readable THEN {}
  ELSE {i \in 1..Len(FileAt(sp).lines) :
          TypeIn(FileAt(sp).lines[i], {"user", "assistant"})}

AllTyped == UNION {{<<sp, i>> : i \in TypedLines(sp)} : sp \in SessionPaths}
AllParsed == UNION {{<<sp, i>> : i \in ParsedLines(sp)} : sp \in SessionPaths}

\* The hour and weekday a parsed line states.
ParsedAt(m) == parse_from_rfc3339(Get(FileAt(m[1]).lines[m[2]], "timestamp").v)

RECURSIVE SumCounts(_, _)
SumCounts(activity, i) ==
  IF i > Len(activity) THEN 0 ELSE activity[i].count + SumCounts(activity, i + 1)

\* C12: total_messages is the number of user and assistant lines; a bucket
\* (hour 0..23, day 0..6) counts the user and assistant lines whose timestamp
\* parses to that hour and day, so the counts add up to the number of such
\* lines, which is at most total_messages; each bucket given has a count of at
\* least 1, and no (hour, day) is given twice.
C12_HourlyBucketsCountParsedMessages ==
  (ret.op = "get_dashboard_stats" /\ ret.ok) =>
    LET activity == ret.val.hourly_activity
    IN /\ ret.val.total_messages = Cardinality(AllTyped)
       /\ SumCounts(activity, 1) = Cardinality(AllParsed)
       /\ SumCounts(activity, 1) <= ret.val.total_messages
       /\ \A n \in 1..Len(activity) :
            /\ activity[n].hour \in 0..23
            /\ activity[n].day \in 0..6
            /\ activity[n].count >= 1
            /\ activity[n].count =
                 Cardinality({m \in AllParsed : /\ ParsedAt(m).hour = activity[n].hour
                                                /\ ParsedAt(m).weekday = activity[n].day})
            /\ \A o \in 1..Len(activity) :
                 (activity[o].hour = activity[n].hour /\ activity[o].day = activity[n].day)
                   => o = n
       /\ \A m \in AllParsed :
            \E n \in 1..Len(activity) : /\ ParsedAt(m).hour = activity[n].hour
                                        /\ ParsedAt(m).weekday = activity[n].day

\* A dashboard over user and assistant lines of which one has a timestamp
\* that does not parse, two fall in the same bucket and one in another.
C12_Witness ==
  /\ ret.op = "get_dashboard_stats"
  /\ ret.ok
  /\ Cardinality(AllParsed) < Cardinality(AllTyped)
  /\ \E m \in AllTyped : Get(FileAt(m[1]).lines[m[2]], "timestamp") = JStr(TsBad)
  /\ Len(ret.val.hourly_activity) >= 2
  /\ \E n \in 1..Len(ret.val.hourly_activity) : ret.val.hourly_activity[n].count >= 2

(***************************************************************************)
(* The context command over the outputs of the log.                        *)
(***************************************************************************)
\* Lines of the output of `git log --format=%H|%s|%aI --name-only`: two
\* headers (the second with a `|` in its date part), the paths "a", " b " and
\* "c|d", and the empty line between the blocks.
LogLines ==
  {<<"h", "|", "m", "|", "d">>, <<"g", "|", "n", "|", "x", "|", "e">>,
   <<"a">>, <<" ", "b", " ">>, <<"c", "|", "d">>, <<>>}

LogOutputs == UNION {[1..n -> LogLines] : n \in 0..MaxLogLines}

InitLog ==
  /\ fs = OneProject(<<[NewFile(1, "jsonl", 1) EXCEPT !.lines = <<CtxEdit>>]>>)
  /\ ret = Idle

NextLog ==
  \/ \E stdout \in LogOutputs :
       GetSessionContext(Active, "home/me/app", [outcome |-> "ok", stdout |-> stdout])
  \/ Return

SpecLog == InitLog /\ [][NextLog]_vars

\* A header line `hash|subject|authorDate`: a line with two `|` or more.
IsHeaderLine(text) == Cardinality({i \in 1..Len(text) : text[i] = "|"}) >= 2

HeaderIndexes(stdout) == {i \in 1..Len(stdout) : IsHeaderLine(stdout[i])}

\* The index of the n-th header of the output.
NthHeader(stdout, n) ==
  CHOOSE i \in HeaderIndexes(stdout) :
    Cardinality({j \in HeaderIndexes(stdout) : j <= i}) = n

\* The non-blank lines that are not headers between header i and the next
\* header, in order, without the white space around them.
FilesAfter(stdout, i) ==
  LET later == {j \in HeaderIndexes(stdout) : j > i}
      stop == IF later = {} THEN Len(stdout) + 1
              ELSE CHOOSE j \in later : \A o \in later : j <= o
      rows == {j \in (i + 1)..(stop - 1) : ~TrimIsEmpty(stdout[j])}
      row(q) == CHOOSE j \in rows : Cardinality({o \in rows : o <= j}) = q
  IN [q \in 1..Cardinality(rows) |-> Trim(stdout[row(q)])]

\* C13: the commits of an output are one per header line, in the order of the
\* output; hash, message and timestamp are the parts of the header at its
\* first two `|`; the files of a commit are the non-blank lines that are not
\* headers between its header and the next, in order.
C13_OneCommitPerHeaderWithItsFiles ==
  (GotContext /\ ret.call.invoked /\ ret.git.outcome = "ok") =>
    LET stdout == ret.git.stdout
        commits == ret.val.git_commits
    IN /\ Len(commits) = Cardinality(HeaderIndexes(stdout))
       /\ \A n \in 1..Len(commits) :
            LET i == NthHeader(stdout, n)
            IN /\ commits[n].hash = Splitn3(stdout[i])[1]
               /\ commits[n].message = Splitn3(stdout[i])[2]
               /\ commits[n].timestamp = Splitn3(stdout[i])[3]
               /\ commits[n].files = FilesAfter(stdout, i)

(***************************************************************************)
(* The scanner and the message listing on the same file.                   *)
(***************************************************************************)
\* C14: on every file the message count of calculate_session_stats is the
\* number of Messages get_messages returns, so get_sessions lists a .jsonl
\* file exactly when get_messages on it returns a Message.
C14_ScannerAgreesWithMessages ==
  /\ (ret.op = "get_messages" /\ ret.ok) =>
       Len(ret.val) = calculate_session_stats(FileAt(ret.arg))[3]
  /\ (ret.op = "calculate_session_stats" /\ FileAt(ret.arg).readable) =>
       /\ get_messages(ret.arg).ok
       /\ ret.val[3] = Len(get_messages(ret.arg).val)
  /\ (ret.op = "get_sessions" /\ ret.ok) =>
       LET files == fs.projects.entries[ret.arg].files
       IN \A i \in {i \in 1..Len(files) : IsJsonl(files[i])} :
            Listed(ret.val, <<ret.arg, i>>) <=>
              /\ get_messages(<<ret.arg, i>>).ok
              /\ Len(get_messages(<<ret.arg, i>>).val) > 0

\* A scan of two lines that counts one message: one line qualifies in both
\* formats, the other in neither.
C14_Witness ==
  /\ ret.op = "calculate_session_stats"
  /\ FileAt(ret.arg).readable
  /\ Len(FileAt(ret.arg).lines) = 2
  /\ ret.val[3] = 1
  /\ \E i \in 1..2 : LET line == FileAt(ret.arg).lines[i]
                     IN PrimaryQualifies(line) /\ LegacyQualifies(line)
  /\ \E i \in 1..2 : LET line == FileAt(ret.arg).lines[i]
                     IN line.k = "obj" /\ ~PrimaryQualifies(line) /\ ~LegacyQualifies(line)

(***************************************************************************)
(* The dashboard's totals across its grouping axes.                        *)
(***************************************************************************)
RECURSIVE SumOver(_, _, _)
SumOver(rows, field, i) ==
  IF i > Len(rows) THEN 0 ELSE rows[i][field] + SumOver(rows, field, i + 1)

\* The lines of the sessions that have message.usage.
AllUsageLines ==
  UNION {{<<sp, i>> : i \in {i \in 1..Len(FileAt(sp).lines) :
                               /\ FileAt(sp).readable
                               /\ IsJson(FileAt(sp).lines[i])
                               /\ Get(Get(FileAt(sp).lines[i], "message"), "usage").k # "absent"}} :
           sp \in SessionPaths}

\* Every usage line has a timestamp (of the data model: a string).
EveryUsageLineHasTimestamp ==
  \A m \in AllUsageLines : Get(FileAt(m[1]).lines[m[2]], "timestamp").k = "str"

\* C15: the global token totals are the sums of the project totals over
\* project_stats, total_sessions is the sum of their session counts, the sums
\* of the daily token totals are at most the global totals and equal to them
\* when every usage line has a timestamp, and the sum of the daily message
\* counts is at most total_messages.
C15_TotalsConservedAcrossAxes ==
  (ret.op = "get_dashboard_stats" /\ ret.ok) =>
    LET stats == ret.val
    IN /\ stats.total_input_tokens = SumOver(stats.project_stats, "total_input_tokens", 1)
       /\ stats.total_output_tokens = SumOver(stats.project_stats, "total_output_tokens", 1)
       /\ stats.total_sessions = SumOver(stats.project_stats, "session_count", 1)
       /\ SumOver(stats.daily_stats, "input_tokens", 1) <= stats.total_input_tokens
       /\ SumOver(stats.daily_stats, "output_tokens", 1) <= stats.total_output_tokens
       /\ EveryUsageLineHasTimestamp =>
            /\ SumOver(stats.daily_stats, "input_tokens", 1) = stats.total_input_tokens
            /\ SumOver(stats.daily_stats, "output_tokens", 1) = stats.total_output_tokens
       /\ SumOver(stats.daily_stats, "message_count", 1) <= stats.total_messages

\* A dashboard over two projects with tokens on two days, and a usage line
\* without timestamp that leaves the daily sums below the global totals.
C15_Witness ==
  /\ ret.op = "get_dashboard_stats"
  /\ ret.ok
  /\ Len(ret.val.project_stats) >= 2
  /\ \A n \in 1..Len(ret.val.project_stats) : ret.val.project_stats[n].total_input_tokens > 0
  /\ Len(ret.val.daily_stats) >= 2
  /\ ~EveryUsageLineHasTimestamp
  /\ 0 < SumOver(ret.val.daily_stats, "input_tokens", 1)
  /\ SumOver(ret.val.daily_stats, "input_tokens", 1) < ret.val.total_input_tokens
  /\ SumOver(ret.val.daily_stats, "message_count", 1) < ret.val.total_messages

====
